---- MODULE Spec2Model ----
(***************************************************************************)
(* TrieMap (src/src/trie-map.ts): a compressed trie from string keys to    *)
(* values, with key windows, longest-prefix search and a one-character     *)
(* wildcard in stored keys.                                                *)
(*                                                                         *)
(* Strings are sequences of one-character strings.  Nodes live in an       *)
(* arena: `nodes` is the sequence of all node objects ever created, a node *)
(* reference is its index in the arena and 0 is the null reference.        *)
(***************************************************************************)
EXTENDS Integers, Sequences, FiniteSets, TLC

VARIABLES
    nodes,          \* the arena of TrieMapNode objects, in creation order
    root,           \* this.root: a node reference, NoNode when the trie is empty
    caseSensitive,  \* this.caseSensitive
    sets,           \* the set calls so far: their number, the last key and value
    hist,           \* the pairs <<folded key, value>> of the last set of each key
    call,           \* the query in progress, as the caller passed it
    ret             \* what that query returned and how it left the key pointer

vars == <<nodes, root, caseSensitive, sets, hist, call, ret>>

(***************************************************************************)
(* Bounds of the model.                                                    *)
(***************************************************************************)
\* longest key passed to set
MaxKeyLen == 2
\* longest data buffer a key window is laid over
MaxDataLen == 3
\* number of set calls in one run
MaxSets == 3
\* longest key and number of set calls in the runs of set alone
MaxLongKeyLen == 3
MaxLongSets == 4

(***************************************************************************)
(* Characters.                                                             *)
(***************************************************************************)
\* the wildcard of charsEqual
Wildcard == "*"

\* the letters A-Z and a-z, in order
UpperCase ==
    << "A", "B", "C", "D", "E", "F", "G", "H", "I", "J", "K", "L", "M",
       "N", "O", "P", "Q", "R", "S", "T", "U", "V", "W", "X", "Y", "Z" >>
LowerCase ==
    << "a", "b", "c", "d", "e", "f", "g", "h", "i", "j", "k", "l", "m",
       "n", "o", "p", "q", "r", "s", "t", "u", "v", "w", "x", "y", "z" >>

\* the characters matched by nonBoundaryRegex, /[A-Z]/i
Letters == {UpperCase[i] : i \in 1..26} \cup {LowerCase[i] : i \in 1..26}

\* String.prototype.toLowerCase on one character
lowerOf == [c \in {UpperCase[i] : i \in 1..26} |->
               LowerCase[CHOOSE i \in 1..26 : UpperCase[i] = c]]
toLowerCase(c) == IF c \in DOMAIN lowerOf THEN lowerOf[c] ELSE c

\* String.prototype.toLowerCase on a string
lowerString(s) == [i \in 1..Len(s) |-> toLowerCase(s[i])]

\* the value null, the null node reference
NULL == -1
NoNode == 0

\* JavaScript truthiness of a value of type T | null (numbers: 0 is falsy)
Truthy(v) == v # NULL /\ v # 0

\* all strings over the characters cs of length at most n
RECURSIVE StringsUpTo(_, _)
StringsUpTo(cs, n) ==
    IF n = 0 THEN {<<>>}
    ELSE LET shorter == StringsUpTo(cs, n - 1)
         IN  shorter \cup {Append(s, c) : s \in shorter, c \in cs}

\* s.slice(from) and s.slice(0, to) for 0 <= from, to <= length
sliceFrom(s, from) == SubSeq(s, from + 1, Len(s))
sliceTo(s, to) == SubSeq(s, 1, to)

\* s.slice(0, -n) for n >= 0: -0 is 0, so n = 0 gives the empty string
sliceDropLast(s, n) ==
    IF n = 0 \/ n >= Len(s) THEN <<>> ELSE SubSeq(s, 1, Len(s) - n)

(***************************************************************************)
(* charsEqual and matchPrefix.                                             *)
(***************************************************************************)
\* this.charsEqual(a, b): a is the stored character, b the searched one
charsEqual(cs, a, b) ==
    IF cs THEN a = Wildcard \/ a = b
    ELSE a = Wildcard \/ a = toLowerCase(b)

\* the for loop of matchPrefix: the index at which it stops
RECURSIVE matchLoop(_, _, _, _)
matchLoop(cs, prefix, kp, index) ==
    IF kp.pos + index < kp.posMax
    THEN IF index >= Len(prefix)
            \/ ~charsEqual(cs, prefix[index + 1], kp.data[kp.pos + index + 1])
         THEN [stopped |-> TRUE, index |-> index]
         ELSE matchLoop(cs, prefix, kp, index + 1)
    ELSE [stopped |-> FALSE, index |-> index]

\* a match is 'full', 'none' or a prefix match { index }
Full == [kind |-> "full", index |-> 0]
None == [kind |-> "none", index |-> 0]
Prefix(i) == [kind |-> "prefix", index |-> i]
isPrefixMatch(m) == m.kind = "prefix"

\* matchPrefix reading on to the end of the buffer instead of posMax
matchPrefixToEnd(cs, prefix, kp) ==
    LET end == [kp EXCEPT !.posMax = Len(kp.data)]
        r == matchLoop(cs, prefix, end, 0)
    IN  IF r.stopped
        THEN IF r.index > 0 \/ Len(prefix) = 0 THEN Prefix(r.index) ELSE None
        ELSE IF end.pos + r.index = end.posMax /\ r.index = Len(prefix)
             THEN Full
             ELSE Prefix(r.index)

\* matchPrefix(prefix, keyPointer)
matchPrefix(cs, prefix, kp) ==
    LET r == matchLoop(cs, prefix, kp, 0)
    IN  IF r.stopped
        THEN IF r.index > 0 \/ Len(prefix) = 0 THEN Prefix(r.index) ELSE None
        ELSE IF kp.pos + r.index = kp.posMax /\ r.index = Len(prefix)
             THEN Full
             ELSE Prefix(r.index)

\* keyAsPointer and keyAsString
keyAsPointer(s) == [data |-> s, pos |-> 0, posMax |-> Len(s)]
keyAsString(kp) == SubSeq(kp.data, kp.pos + 1, kp.posMax)

(***************************************************************************)
(* findClosestMatchingNode.  The result carries the pointer's pos as the   *)
(* call leaves it: the pointer is mutated in place.                        *)
(***************************************************************************)
NoResult(kp) ==
    [found |-> FALSE, node |-> NoNode, match |-> None, fullKey |-> <<>>,
     sumIndex |-> 0, pos |-> kp.pos]

\* firstMatchingChild looking at child number i only
firstMatchingChildOnly(ns, cs, children, kp, i) ==
    IF i > Len(children) THEN [child |-> NoNode, match |-> None]
    ELSE LET match == matchPrefix(cs, ns[children[i]].key, kp)
         IN  IF match.kind = "none"
             THEN [child |-> NoNode, match |-> None]
             ELSE [child |-> children[i], match |-> match]

\* the for loop over candidateNode.children, from child number i on:
\* the first child whose match is 'full' or a prefix match, if any
RECURSIVE firstMatchingChild(_, _, _, _, _)
firstMatchingChild(ns, cs, children, kp, i) ==
    IF i > Len(children) THEN [child |-> NoNode, match |-> None]
    ELSE LET match == matchPrefix(cs, ns[children[i]].key, kp)
         IN  IF match.kind = "none"
             THEN firstMatchingChild(ns, cs, children, kp, i + 1)
             ELSE [child |-> children[i], match |-> match]

\* the while loop; kp.pos is the advanced position, pos0 the original one
RECURSIVE traverse(_, _, _, _, _, _, _, _, _)
traverse(ns, cs, kp, pos0, candidateNode, candidateMatch, continue, sumIndex, fullKey) ==
    IF ~continue \/ candidateMatch.index # Len(ns[candidateNode].key)
    THEN [found |-> TRUE, node |-> candidateNode, match |-> candidateMatch,
          fullKey |-> fullKey, sumIndex |-> sumIndex, pos |-> pos0]
    ELSE LET c == firstMatchingChild(ns, cs, ns[candidateNode].children, kp, 1)
         IN  IF c.child = NoNode
             THEN traverse(ns, cs, kp, pos0, candidateNode, candidateMatch,
                           FALSE, sumIndex, fullKey)
             ELSE IF c.match.kind = "full"
             THEN [found |-> TRUE, node |-> c.child, match |-> Full,
                   fullKey |-> fullKey \o ns[c.child].key, sumIndex |-> 0,
                   pos |-> kp.pos]
             ELSE traverse(ns, cs,
                           [kp EXCEPT !.pos = kp.pos + c.match.index], pos0,
                           c.child, c.match, TRUE,
                           sumIndex + c.match.index,
                           fullKey \o ns[c.child].key)

findClosestMatchingNode(ns, rt, cs, kp) ==
    IF rt = NoNode THEN NoResult(kp)
    ELSE LET rootMatch == matchPrefix(cs, ns[rt].key, kp)
         IN  IF rootMatch.kind = "none" THEN NoResult(kp)
             ELSE IF rootMatch.kind = "full"
             THEN [found |-> TRUE, node |-> rt, match |-> Full,
                   fullKey |-> ns[rt].key, sumIndex |-> 0, pos |-> kp.pos]
             ELSE traverse(ns, cs,
                           [kp EXCEPT !.pos = kp.pos + rootMatch.index], kp.pos,
                           rt, rootMatch, TRUE, rootMatch.index, ns[rt].key)

(***************************************************************************)
(* get.                                                                    *)
(***************************************************************************)
\* get(key): the value returned, and the pointer's pos after the call
get(ns, rt, cs, kp) ==
    LET result == findClosestMatchingNode(ns, rt, cs, kp)
    IN  [value |-> IF result.found /\ result.match.kind = "full"
                   THEN ns[result.node].value
                   ELSE NULL,
         pos |-> result.pos,
         posMax |-> kp.posMax]

(***************************************************************************)
(* set.  A new node object gets the next free index of the arena.          *)
(***************************************************************************)
newNode(key, value, parent, children) ==
    [key |-> key, value |-> value, parent |-> parent, children |-> children]

\* children.indexOf(node): the first position of node, 0 when absent
RECURSIVE indexOf(_, _, _)
indexOf(children, node, i) ==
    IF i > Len(children) THEN 0
    ELSE IF children[i] = node THEN i
    ELSE indexOf(children, node, i + 1)

\* children[children.indexOf(node)] = newChild (an absent node leaves the
\* list as it is: index -1 is no element of the array)
replaceChild(children, node, newChild) ==
    LET i == indexOf(children, node, 1)
    IN  IF i = 0 THEN children ELSE [children EXCEPT ![i] = newChild]

\* splitRoot leaving the old root out of the children of the new one
splitRootDropsOld(ns, rt, keyString, value) ==
    LET n == Len(ns) + 1
    IN  [nodes |-> [ns EXCEPT ![rt].parent = n]
                   \o << newNode(<<>>, NULL, NoNode, <<n + 1>>),
                         newNode(keyString, value, n, <<>>) >>,
         root |-> n]

\* "split the root": lines 100-109
splitRoot(ns, rt, keyString, value) ==
    LET n == Len(ns) + 1
    IN  [nodes |-> [ns EXCEPT ![rt].parent = n]
                   \o << newNode(<<>>, NULL, NoNode, <<rt, n + 1>>),
                         newNode(keyString, value, n, <<>>) >>,
         root |-> n]

\* "insert a parent node": lines 113-127
insertParent(ns, rt, node, index, value) ==
    LET n == Len(ns) + 1
        parent == ns[node].parent
        created == newNode(sliceTo(ns[node].key, index), value, parent, <<node>>)
        moved == [ns EXCEPT ![node].key = sliceFrom(ns[node].key, index),
                            ![node].parent = n]
    IN  IF node = rt
        THEN [nodes |-> Append(moved, created), root |-> n]
        ELSE [nodes |-> Append(
                  [moved EXCEPT ![parent].children =
                       replaceChild(ns[parent].children, node, n)],
                  created),
              root |-> rt]

\* splitNode leaving the parent reference of the moved children as it was
splitNodeNoReparent(ns, rt, node, index, sumIndex, keyString, value) ==
    LET n == Len(ns) + 1
        old == ns[node]
        demoted == newNode(sliceFrom(old.key, index), old.value, node, old.children)
        isExactMatch == sumIndex = Len(keyString)
        rewired == [ns EXCEPT ![node] =
                      [key |-> sliceTo(old.key, index),
                       value |-> IF isExactMatch THEN value ELSE NULL,
                       parent |-> old.parent,
                       children |-> IF isExactMatch THEN <<n>> ELSE <<n, n + 1>>]]
    IN  [nodes |-> IF isExactMatch
                   THEN Append(rewired, demoted)
                   ELSE rewired \o << demoted,
                                      newNode(sliceFrom(keyString, sumIndex),
                                              value, node, <<>>) >>,
         root |-> rt]

\* splitNode not handing the value of the node on to the demoted node
splitNodeLosesValue(ns, rt, node, index, sumIndex, keyString, value) ==
    LET n == Len(ns) + 1
        old == ns[node]
        demoted == newNode(sliceFrom(old.key, index), NULL, node, old.children)
        isExactMatch == sumIndex = Len(keyString)
        moved == {old.children[i] : i \in 1..Len(old.children)}
        rewired == [i \in 1..Len(ns) |->
                      IF i = node
                      THEN [key |-> sliceTo(old.key, index),
                            value |-> IF isExactMatch THEN value ELSE NULL,
                            parent |-> old.parent,
                            children |-> IF isExactMatch THEN <<n>> ELSE <<n, n + 1>>]
                      ELSE IF i \in moved THEN [ns[i] EXCEPT !.parent = n]
                      ELSE ns[i]]
    IN  [nodes |-> IF isExactMatch
                   THEN Append(rewired, demoted)
                   ELSE rewired \o << demoted,
                                      newNode(sliceFrom(keyString, sumIndex),
                                              value, node, <<>>) >>,
         root |-> rt]

\* "split a parent node with a smaller key": lines 129-145
splitNode(ns, rt, node, index, sumIndex, keyString, value) ==
    LET n == Len(ns) + 1
        old == ns[node]
        demoted == newNode(sliceFrom(old.key, index), old.value, node, old.children)
        isExactMatch == sumIndex = Len(keyString)
        moved == {old.children[i] : i \in 1..Len(old.children)}
        rewired == [i \in 1..Len(ns) |->
                      IF i = node
                      THEN [key |-> sliceTo(old.key, index),
                            value |-> IF isExactMatch THEN value ELSE NULL,
                            parent |-> old.parent,
                            children |-> IF isExactMatch THEN <<n>> ELSE <<n, n + 1>>]
                      ELSE IF i \in moved THEN [ns[i] EXCEPT !.parent = n]
                      ELSE ns[i]]
    IN  [nodes |-> IF isExactMatch
                   THEN Append(rewired, demoted)
                   ELSE rewired \o << demoted,
                                      newNode(sliceFrom(keyString, sumIndex),
                                              value, node, <<>>) >>,
         root |-> rt]

\* appendLeaf giving the leaf the whole key instead of its remaining suffix
appendLeafWholeKey(ns, rt, node, sumIndex, keyString, value) ==
    LET n == Len(ns) + 1
    IN  [nodes |-> Append([ns EXCEPT ![node].children = Append(@, n)],
                          newNode(keyString, value, node, <<>>)),
         root |-> rt]

\* "add the new node to children": lines 147-148
appendLeaf(ns, rt, node, sumIndex, keyString, value) ==
    LET n == Len(ns) + 1
    IN  [nodes |-> Append([ns EXCEPT ![node].children = Append(@, n)],
                          newNode(sliceFrom(keyString, sumIndex), value, node, <<>>)),
         root |-> rt]

\* updateValue dropping the children of the node it updates
updateValueDropChildren(ns, rt, node, value) ==
    [nodes |-> [ns EXCEPT ![node].value = value, ![node].children = <<>>],
     root |-> rt]

\* "update existing node value": lines 151-152
updateValue(ns, rt, node, value) ==
    [nodes |-> [ns EXCEPT ![node].value = value], root |-> rt]

\* set without the case folding
foldKeyNever(cs, key) == key

\* the case folding of set: lines 88-91
foldKey(cs, key) == IF cs THEN key ELSE lowerString(key)

\* set(key, value): the arena and the root after the call
set(ns, rt, cs, key, value) ==
    LET keyString == foldKey(cs, key)
    IN  IF rt = NoNode
        THEN [nodes |-> Append(ns, newNode(keyString, value, NoNode, <<>>)),
              root |-> Len(ns) + 1]
        ELSE LET keyPointer == keyAsPointer(keyString)
                 result == findClosestMatchingNode(ns, rt, cs, keyPointer)
             IN  IF ~result.found
                 THEN splitRoot(ns, rt, keyString, value)
                 ELSE IF isPrefixMatch(result.match)
                 THEN IF result.match.index = keyPointer.posMax - result.pos
                      THEN insertParent(ns, rt, result.node, result.match.index, value)
                      ELSE IF result.match.index < Len(ns[result.node].key)
                      THEN splitNode(ns, rt, result.node, result.match.index,
                                     result.sumIndex, keyString, value)
                      ELSE appendLeaf(ns, rt, result.node, result.sumIndex,
                                      keyString, value)
                 ELSE updateValue(ns, rt, result.node, value)

(***************************************************************************)
(* findByLongestPrefix.                                                    *)
(***************************************************************************)
\* isNonBoundary(src, pos): nonBoundaryRegex.test(src[pos]); outside the
\* string src[pos] is undefined, which test() reads as "undefined"
isNonBoundary(src, pos) ==
    IF pos < 0 \/ pos >= Len(src) THEN TRUE ELSE src[pos + 1] \in Letters

\* the while loop of lines 42-48, entered with a non-null node: the ancestor
\* it stops at (NoNode when it runs off the root) and the trimmed fullKey
RECURSIVE walkUp(_, _, _)
walkUp(ns, node, fullKey) ==
    LET trimmed == sliceDropLast(fullKey, Len(ns[node].key))
        parent == ns[node].parent
    IN  IF parent = NoNode THEN [node |-> NoNode, fullKey |-> trimmed]
        ELSE IF Truthy(ns[parent].value) THEN [node |-> parent, fullKey |-> trimmed]
        ELSE walkUp(ns, parent, trimmed)

\* the result null of findByLongestPrefix, with the pointer as it is left
notFound(kp, calls) ==
    [found |-> FALSE, key |-> <<>>, value |-> NULL,
     pos |-> kp.pos, posMax |-> kp.posMax, calls |-> calls]

\* findByLongestPrefix(search, wordBoundaryOnly); calls counts the
\* invocations, the first one and the recursive retries
RECURSIVE longestPrefix(_, _, _, _, _, _)
RECURSIVE lastValuedAncestor(_, _, _, _, _, _, _)
RECURSIVE boundaryCheck(_, _, _, _, _, _, _)

\* line 37, and lines 38-53 on its result
longestPrefix(ns, rt, cs, kp, wordBoundaryOnly, calls) ==
    lastValuedAncestor(ns, rt, cs, kp, wordBoundaryOnly, calls,
                       findClosestMatchingNode(ns, rt, cs, kp))

\* lines 38-53: null without a result, on a match 'none' or at a node with
\* the value null; from a node whose segment is matched in part, up to the
\* nearest ancestor with a truthy value; searchPointer is the caller's
\* pointer as findClosestMatchingNode leaves it
lastValuedAncestor(ns, rt, cs, kp, wordBoundaryOnly, calls, result) ==
    IF ~result.found \/ result.match.kind = "none"
       \/ ns[result.node].value = NULL
    THEN notFound([kp EXCEPT !.pos = result.pos], calls)
    ELSE boundaryCheck(ns, rt, cs, [kp EXCEPT !.pos = result.pos],
                       wordBoundaryOnly, calls,
                       IF result.match.kind # "full"
                          /\ result.match.index # Len(ns[result.node].key)
                       THEN walkUp(ns, result.node, result.fullKey)
                       ELSE [node |-> result.node, fullKey |-> result.fullKey])

\* lines 49-51 and 55-64: up is result.node and result.fullKey after the
\* while loop
boundaryCheck(ns, rt, cs, searchPointer, wordBoundaryOnly, calls, up) ==
    IF up.node = NoNode THEN notFound(searchPointer, calls)
    ELSE IF wordBoundaryOnly
            /\ searchPointer.pos + Len(up.fullKey) < searchPointer.posMax
            /\ isNonBoundary(searchPointer.data,
                             searchPointer.pos + Len(up.fullKey))
    THEN longestPrefix(ns, rt, cs,
             [searchPointer EXCEPT
                 !.posMax = searchPointer.pos + Len(up.fullKey) - 1],
             TRUE, calls + 1)
    ELSE IF Truthy(ns[up.node].value)
    THEN [found |-> TRUE, key |-> up.fullKey, value |-> ns[up.node].value,
          pos |-> searchPointer.pos, posMax |-> searchPointer.posMax,
          calls |-> calls]
    ELSE notFound(searchPointer, calls)

findByLongestPrefix(ns, rt, cs, kp, wordBoundaryOnly) ==
    longestPrefix(ns, rt, cs, kp, wordBoundaryOnly, 1)

(***************************************************************************)
(* iterate.                                                                *)
(***************************************************************************)
\* childEntries pushing each child with its own segment as the key
childEntriesSegmentOnly(ns, node, fullKey) ==
    [i \in 1..Len(ns[node].children) |->
        <<ns[node].children[i], ns[ns[node].children[i]].key>>]

\* the children of node with their full keys, as pushed on the work list
childEntries(ns, node, fullKey) ==
    [i \in 1..Len(ns[node].children) |->
        <<ns[node].children[i], fullKey \o ns[ns[node].children[i]].key>>]

\* takeEntry shifting from the front of the work list in both orders
takeEntryShift(q, order) == [entry |-> Head(q), rest |-> Tail(q)]

\* order === 'bfs' ? q.shift() : q.pop(): the entry taken and the list left
takeEntry(q, order) ==
    IF order = "bfs"
    THEN [entry |-> Head(q), rest |-> Tail(q)]
    ELSE [entry |-> q[Len(q)], rest |-> SubSeq(q, 1, Len(q) - 1)]

\* the while loop over the work list q: the pairs yielded, in order
RECURSIVE workList(_, _, _, _)
workList(ns, q, order, yielded) ==
    IF Len(q) = 0 THEN yielded
    ELSE LET taken == takeEntry(q, order)
             rest == taken.rest
             node == taken.entry[1]
             fullKey == taken.entry[2]
         IN  workList(ns, rest \o childEntries(ns, node, fullKey), order,
                      IF Truthy(ns[node].value)
                      THEN Append(yielded, <<fullKey, ns[node].value>>)
                      ELSE yielded)

\* iterate(prefix, order), consumed to its end.  hasPrefix is the truthiness
\* of the prefix argument: false for undefined and for the empty string
iterate(ns, rt, cs, hasPrefix, kp, order) ==
    IF rt = NoNode THEN [pairs |-> <<>>, pos |-> kp.pos, posMax |-> kp.posMax]
    ELSE IF ~hasPrefix
    THEN [pairs |-> workList(ns, << <<rt, ns[rt].key>> >>, order, <<>>),
          pos |-> kp.pos, posMax |-> kp.posMax]
    ELSE LET result == findClosestMatchingNode(ns, rt, cs, kp)
         IN  [pairs |-> IF ~result.found THEN <<>>
                        ELSE workList(ns, << <<result.node, result.fullKey>> >>,
                                      order, <<>>),
              pos |-> result.pos, posMax |-> kp.posMax]

(***************************************************************************)
(* iterate as the generator it is: nothing of the body runs before the     *)
(* first next(), and the body is suspended at every yield, with the work   *)
(* list q and the entry taken, until the next next().                      *)
(***************************************************************************)
\* the end of the generator: no entry, no pair
generatorDone == [done |-> TRUE, q |-> <<>>, at |-> <<>>, pair |-> <<>>]

\* the while loop from its head to the next yield (the entry taken, the
\* pair yielded and the list left) or to its end
RECURSIVE runToYield(_, _, _)
runToYield(ns, q, order) ==
    IF Len(q) = 0 THEN generatorDone
    ELSE LET taken == takeEntry(q, order)
             node == taken.entry[1]
             fullKey == taken.entry[2]
         IN  IF Truthy(ns[node].value)
             THEN [done |-> FALSE, q |-> taken.rest, at |-> taken.entry,
                   pair |-> <<fullKey, ns[node].value>>]
             ELSE runToYield(ns, taken.rest \o childEntries(ns, node, fullKey),
                             order)

\* the first next(): lines 68-77 and the loop to the first yield; pos is
\* the pointer's pos as findClosestMatchingNode leaves it
iterateStart(ns, rt, cs, hasPrefix, kp, order) ==
    IF rt = NoNode THEN generatorDone @@ [pos |-> kp.pos]
    ELSE IF ~hasPrefix
    THEN runToYield(ns, << <<rt, ns[rt].key>> >>, order) @@ [pos |-> kp.pos]
    ELSE LET result == findClosestMatchingNode(ns, rt, cs, kp)
         IN  IF ~result.found THEN generatorDone @@ [pos |-> result.pos]
             ELSE runToYield(ns, << <<result.node, result.fullKey>> >>, order)
                     @@ [pos |-> result.pos]

\* a later next(): line 83 for the entry the generator was suspended at,
\* with the children and the segments the node has now, and the loop on to
\* the next yield
iterateResume(ns, q, at, pos, order) ==
    runToYield(ns, q \o childEntries(ns, at[1], at[2]), order)
       @@ [pos |-> pos]

(***************************************************************************)
(* The inputs of the calls.                                                *)
(***************************************************************************)
\* the characters of the keys set in the runs of get by string: two
\* letters, one of them in both cases
KeyChars == {"a", "A", "b"}
\* the characters of the keys set in the runs with the wildcard
WildChars == {"a", "b", "*"}
\* the characters of the keys set in the runs with key windows, and of the
\* buffers the windows are laid over: one letter in both cases, one non-letter
WindowKeyChars == {"a", "A"}
DataChars == {"a", "A", "-"}

Keys == StringsUpTo(KeyChars, MaxKeyLen)
WildKeys == StringsUpTo(WildChars, MaxKeyLen)
WindowKeys == StringsUpTo(WindowKeyChars, MaxKeyLen)

\* the well-formed key pointers over the buffers D:
\* 0 <= pos <= posMax <= length(data)
Windows(D) ==
    {kp \in [data : D, pos : 0..MaxDataLen, posMax : 0..MaxDataLen] :
        kp.pos <= kp.posMax /\ kp.posMax <= Len(kp.data)}

DataStrings == StringsUpTo(DataChars, MaxDataLen)
DataWindows == Windows(DataStrings)
\* a string passed as key is a pointer over the whole of it; the strings
\* searched are one character longer than the longest key
StringPointers(K) == {keyAsPointer(k) : k \in K}
KeyStrings == StringPointers(StringsUpTo(KeyChars, MaxKeyLen + 1))
WildStrings == StringPointers(StringsUpTo(WildChars, MaxKeyLen + 1))

(***************************************************************************)
(* The state machine: a TrieMap and one caller.                            *)
(***************************************************************************)
NoCall ==
    [op |-> "none", kp |-> keyAsPointer(<<>>), wordBoundaryOnly |-> FALSE,
     hasPrefix |-> FALSE, order |-> "bfs"]

NoRet ==
    [found |-> FALSE, key |-> <<>>, value |-> NULL, pairs |-> <<>>,
     pos |-> 0, posMax |-> 0, calls |-> 0,
     phase |-> "none", q |-> <<>>, at |-> <<>>, started |-> 0]

\* new TrieMap([], options): lines 13-27
Init ==
    /\ nodes = <<>>
    /\ root = NoNode
    /\ caseSensitive \in BOOLEAN
    /\ sets = [count |-> 0, key |-> <<>>, value |-> NULL]
    /\ hist = {}
    /\ call = NoCall
    /\ ret = NoRet

\* the caller is between two calls: no query in progress, or a generator
\* of iterate that is suspended or not started yet
betweenCalls ==
    \/ call.op = "none"
    \/ call.op = "iterate" /\ ret.phase \in {"created", "suspended"}

\* set(k, v) with a key of K; the n-th call passes the value n
SetKey(K) ==
    /\ betweenCalls
    /\ sets.count < MaxSets
    /\ \E k \in K :
         LET v == sets.count + 1
             after == set(nodes, root, caseSensitive, k, v)
             folded == foldKey(caseSensitive, k)
         IN  /\ nodes' = after.nodes
             /\ root' = after.root
             /\ sets' = [count |-> v, key |-> k, value |-> v]
             /\ hist' = {p \in hist : p[1] # folded} \cup {<<folded, v>>}
    /\ UNCHANGED <<caseSensitive, call, ret>>

\* get(kp) with a pointer of W
GetKey(W) ==
    /\ call.op = "none"
    /\ \E kp \in W :
         LET r == get(nodes, root, caseSensitive, kp)
         IN  /\ call' = [NoCall EXCEPT !.op = "get", !.kp = kp]
             /\ ret' = [NoRet EXCEPT !.value = r.value, !.found = r.value # NULL,
                                     !.pos = r.pos, !.posMax = r.posMax]
    /\ UNCHANGED <<nodes, root, caseSensitive, sets, hist>>

\* findByLongestPrefix(kp, wordBoundaryOnly) with a pointer of W
FindKey(W) ==
    /\ call.op = "none"
    /\ \E kp \in W, wb \in BOOLEAN :
         /\ call' = [NoCall EXCEPT !.op = "find", !.kp = kp,
                                   !.wordBoundaryOnly = wb]
         /\ ret' = findByLongestPrefix(nodes, root, caseSensitive, kp, wb)
                   @@ NoRet
    /\ UNCHANGED <<nodes, root, caseSensitive, sets, hist>>

\* iterate(undefined, order), and the default iterator: the generator is
\* created, its body has not started
IterateAll ==
    /\ call.op = "none"
    /\ \E order \in {"bfs", "dfs"} :
         /\ call' = [NoCall EXCEPT !.op = "iterate", !.order = order]
         /\ ret' = [NoRet EXCEPT !.phase = "created"]
    /\ UNCHANGED <<nodes, root, caseSensitive, sets, hist>>

\* iterate(kp, order) with a pointer of W: the generator is created
IterateKey(W) ==
    /\ call.op = "none"
    /\ \E kp \in W, order \in {"bfs", "dfs"} :
         /\ call' = [NoCall EXCEPT !.op = "iterate", !.kp = kp,
                                   !.hasPrefix = TRUE, !.order = order]
         /\ ret' = [NoRet EXCEPT !.phase = "created", !.pos = kp.pos,
                                 !.posMax = kp.posMax]
    /\ UNCHANGED <<nodes, root, caseSensitive, sets, hist>>

\* what the caller holds after a next() that ran the body as far as r
afterNext(before, r, count) ==
    [before EXCEPT
        !.phase = IF r.done THEN "done" ELSE "suspended",
        !.q = r.q,
        !.at = r.at,
        !.pairs = IF r.done THEN @ ELSE Append(@, r.pair),
        !.pos = r.pos,
        !.started = count]

\* next() on the generator: the body runs on the trie as it is now, from the
\* start or from the yield it was suspended at, to the next yield or the end
IterateNext ==
    /\ call.op = "iterate"
    /\ \/ /\ ret.phase = "created"
          /\ ret' = afterNext(ret,
                       iterateStart(nodes, root, caseSensitive, call.hasPrefix,
                                    call.kp, call.order),
                       sets.count)
       \/ /\ ret.phase = "suspended"
          /\ ret' = afterNext(ret,
                       iterateResume(nodes, ret.q, ret.at, ret.pos, call.order),
                       ret.started)
    /\ UNCHANGED <<nodes, root, caseSensitive, sets, hist, call>>

\* the caller drops the result and the pointer of the query that returned
Release ==
    /\ call.op # "none"
    /\ call' = NoCall
    /\ ret' = NoRet
    /\ UNCHANGED <<nodes, root, caseSensitive, sets, hist>>

\* the runs of get by string: keys in both cases, strings searched in full
SetString == SetKey(Keys)
GetString == GetKey(KeyStrings)

NextStrings ==
    \/ SetString
    \/ GetString
    \/ IterateAll
    \/ IterateNext
    \/ Release

SpecStrings == Init /\ [][NextStrings]_vars

\* the runs with the wildcard in the keys set and in the strings searched
SetWild == SetKey(WildKeys)
GetWild == GetKey(WildStrings)

NextWild ==
    \/ SetWild
    \/ GetWild
    \/ IterateAll
    \/ IterateNext
    \/ Release

SpecWild == Init /\ [][NextWild]_vars

\* the runs with key windows over longer buffers
SetWindowKey == SetKey(WindowKeys)
GetWindow == GetKey(DataWindows)
FindWindow == FindKey(DataWindows)
IteratePrefix == IterateKey(StringPointers(DataStrings))

Next ==
    \/ SetWindowKey
    \/ GetWindow
    \/ FindWindow
    \/ IteratePrefix
    \/ IterateNext
    \/ Release

Spec == Init /\ [][Next]_vars

\* the runs of set alone: longer keys over two letters, more calls
LongKeyChars == {"a", "b"}
LongKeys == StringsUpTo(LongKeyChars, MaxLongKeyLen)

\* set(k, v) with a key of LongKeys; the n-th call passes the value n
SetLongKey ==
    /\ call.op = "none"
    /\ sets.count < MaxLongSets
    /\ \E k \in LongKeys :
         LET v == sets.count + 1
             after == set(nodes, root, caseSensitive, k, v)
             folded == foldKey(caseSensitive, k)
         IN  /\ nodes' = after.nodes
             /\ root' = after.root
             /\ sets' = [count |-> v, key |-> k, value |-> v]
             /\ hist' = {p \in hist : p[1] # folded} \cup {<<folded, v>>}
    /\ UNCHANGED <<caseSensitive, call, ret>>

NextSets == SetLongKey

SpecSets == Init /\ [][NextSets]_vars

\* the runs with falsy values: keys over two letters, and every set passes
\* the number 0 or, as before, the number of the call
FalsyKeyChars == {"a", "b"}
FalsyKeys == StringsUpTo(FalsyKeyChars, MaxKeyLen)
FalsyStrings == StringPointers(StringsUpTo(FalsyKeyChars, MaxKeyLen + 1))

SetFalsy ==
    /\ betweenCalls
    /\ sets.count < MaxSets
    /\ \E k \in FalsyKeys, v \in {0, sets.count + 1} :
         LET after == set(nodes, root, caseSensitive, k, v)
             folded == foldKey(caseSensitive, k)
         IN  /\ nodes' = after.nodes
             /\ root' = after.root
             /\ sets' = [count |-> sets.count + 1, key |-> k, value |-> v]
             /\ hist' = {p \in hist : p[1] # folded} \cup {<<folded, v>>}
    /\ UNCHANGED <<caseSensitive, call, ret>>

GetFalsy == GetKey(FalsyStrings)
FindFalsy == FindKey(FalsyStrings)

NextFalsy ==
    \/ SetFalsy
    \/ GetFalsy
    \/ FindFalsy
    \/ IterateAll
    \/ IterateNext
    \/ Release

SpecFalsy == Init /\ [][NextFalsy]_vars

(***************************************************************************)
(* What the claims speak of.                                               *)
(***************************************************************************)
\* the value of the most recent set of the folded key k, NULL without one
Expected(k) ==
    IF \E p \in hist : p[1] = k
    THEN (CHOOSE p \in hist : p[1] = k)[2]
    ELSE NULL

\* the text of the window of the query, and that text as set would fold it
content == keyAsString(call.kp)
folded == foldKey(caseSensitive, content)

\* the stored key w, with its wildcards, matches the string k in full
matchesPattern(w, k) ==
    Len(w) = Len(k) /\ \A i \in 1..Len(w) : w[i] = Wildcard \/ w[i] = k[i]

isPrefixOf(a, b) == Len(a) <= Len(b) /\ SubSeq(b, 1, Len(a)) = a
hasWildcard(k) == \E i \in 1..Len(k) : k[i] = Wildcard

\* the keys set, with their last values, that are a prefix of the string k
storedPrefixes(k) == {p \in hist : isPrefixOf(p[1], k)}

\* a generator of iterate has run to its end and no set was made since its
\* first next(): the iteration was consumed without interruption
iterated ==
    call.op = "iterate" /\ ret.phase = "done" /\ ret.started = sets.count

\* the pairs a query yielded, as a set
yieldedPairs == {ret.pairs[i] : i \in 1..Len(ret.pairs)}

\* the nodes that carry a value
valueNodes == {n \in 1..Len(nodes) : nodes[n].value # NULL}

\* the full key of node n: the segments from the root down to n
RECURSIVE fullKeyOf(_, _)
fullKeyOf(ns, n) ==
    IF ns[n].parent = NoNode THEN ns[n].key
    ELSE fullKeyOf(ns, ns[n].parent) \o ns[n].key

\* the proper ancestors of node n
RECURSIVE ancestors(_, _)
ancestors(ns, n) ==
    IF ns[n].parent = NoNode THEN {}
    ELSE {ns[n].parent} \cup ancestors(ns, ns[n].parent)

\* a comes before b in the children list of their common parent
siblingBefore(a, b) ==
    /\ nodes[a].parent # NoNode
    /\ nodes[a].parent = nodes[b].parent
    /\ LET children == nodes[nodes[a].parent].children
       IN  \E i, j \in 1..Len(children) :
              i < j /\ children[i] = a /\ children[j] = b

\* the place in the sequence yielded of the pair of value-bearing node n
yieldIndex(n) ==
    CHOOSE i \in 1..Len(ret.pairs) : ret.pairs[i][1] = fullKeyOf(nodes, n)

(***************************************************************************)
(* C1: after any sequence of set calls with keys without the wildcard,     *)
(* get(k) returns the value of the most recent set whose key equals k,     *)
(* after lower-casing both when the trie is not case-sensitive, and null   *)
(* when there was no such set.                                             *)
(***************************************************************************)
C1_GetReturnsLastSet ==
    call.op = "get" => ret.value = Expected(folded)

\* get finds, through a search string in upper case, the first of three
\* keys in a trie of five nodes
C1_Witness ==
    /\ call.op = "get"
    /\ ~caseSensitive
    /\ content # lowerString(content)
    /\ sets.count = 3
    /\ Len(nodes) = 5
    /\ ret.value = 1

(***************************************************************************)
(* C5 as amended: after any sequence of set calls with keys without the    *)
(* wildcard and truthy values, an iterate() in order 'bfs' or 'dfs' that   *)
(* is consumed to its end with no set between its first next() and its end *)
(* yields exactly one pair [k, v] for every distinct folded key set, with  *)
(* v the last value set for k, and nothing else; it yields what the loop   *)
(* of lines 67-85 yields when run in one go.                               *)
(***************************************************************************)
C5_IterateYieldsEachKeyOnce ==
    iterated /\ ~call.hasPrefix =>
        /\ yieldedPairs = hist
        /\ Len(ret.pairs) = Cardinality(hist)
        /\ ret.pairs = iterate(nodes, root, caseSensitive, FALSE, call.kp,
                               call.order).pairs

\* C5 as stated, for every iterate() consumed to its end, a set between two
\* of its pairs or none: each key set before the first next() and not set
\* again since is yielded exactly once with its value, and every pair
\* yielded is that of a key set, with its last value unless the key was set
\* again since the first next()
C5_IterateYieldsKeysSet ==
    call.op = "iterate" /\ ret.phase = "done" /\ ~call.hasPrefix =>
        /\ \A p \in hist :
              p[2] <= ret.started =>
                 Cardinality({i \in 1..Len(ret.pairs) : ret.pairs[i] = p}) = 1
        /\ \A i \in 1..Len(ret.pairs) :
              \/ ret.pairs[i] \in hist
              \/ \E p \in hist :
                    p[1] = ret.pairs[i][1] /\ p[2] > ret.started

\* a depth-first iteration yields three keys out of a trie of five nodes
C5_Witness ==
    /\ iterated
    /\ ~call.hasPrefix
    /\ call.order = "dfs"
    /\ Len(nodes) = 5
    /\ Len(ret.pairs) = 3

(***************************************************************************)
(* C9: in a trie that is not case-sensitive, a get of any key that differs *)
(* from the key last set only in letter case returns the value last set,   *)
(* a set of such a key overwrites the entry (one value-bearing node for    *)
(* each folded key) and every stored key segment is lower-case; in a       *)
(* case-sensitive trie keys that differ in letter case are distinct        *)
(* entries, each with its own value.                                       *)
(***************************************************************************)
C9_CaseFolding ==
    /\ ~caseSensitive =>
          /\ \A n \in 1..Len(nodes) : nodes[n].key = lowerString(nodes[n].key)
          /\ Cardinality(valueNodes) = Cardinality(hist)
          /\ call.op = "get" /\ sets.count > 0
                /\ lowerString(content) = lowerString(sets.key)
             => ret.value = sets.value
    /\ caseSensitive =>
          /\ Cardinality(valueNodes) = Cardinality(hist)
          /\ call.op = "get" /\ sets.count > 0
                /\ lowerString(content) = lowerString(sets.key)
                /\ content # sets.key
             => ret.value # sets.value /\ ret.value = Expected(content)

\* a key set in upper case over its lower-case entry, and found by a get in
\* mixed case
C9_Witness ==
    /\ ~caseSensitive
    /\ call.op = "get"
    /\ sets.count = 3
    /\ sets.key = <<"A", "A">>
    /\ content = <<"a", "A">>
    /\ Cardinality(hist) = 2
    /\ ret.value = 3

(***************************************************************************)
(* C10 as amended: in an iterate consumed to its end with no set between   *)
(* its first next() and its end, a value-bearing node is yielded before    *)
(* any of its descendants in both orders; of two value-bearing children of *)
(* the same parent, the one that comes first in the children list is       *)
(* yielded first in order 'bfs' and last in order 'dfs'.                   *)
(***************************************************************************)
C10_SiblingOrderByWorkList ==
    iterated /\ ~call.hasPrefix =>
        /\ \A a, b \in valueNodes :
              siblingBefore(a, b) =>
                 IF call.order = "bfs"
                 THEN yieldIndex(a) < yieldIndex(b)
                 ELSE yieldIndex(a) > yieldIndex(b)
        /\ \A n \in valueNodes :
              \A m \in ancestors(nodes, n) \cap valueNodes :
                 yieldIndex(m) < yieldIndex(n)

\* C10 as stated, already for an iterate consumed with no set between its
\* pairs (every value-bearing node then has its pair): in both orders the
\* sibling that comes first in the children list is yielded first, and a
\* node before its descendants
C10_SiblingsInInsertionOrder ==
    iterated /\ ~call.hasPrefix =>
        /\ \A a, b \in valueNodes :
              siblingBefore(a, b) => yieldIndex(a) < yieldIndex(b)
        /\ \A n \in valueNodes :
              \A m \in ancestors(nodes, n) \cap valueNodes :
                 yieldIndex(m) < yieldIndex(n)

\* a depth-first iteration over a value-bearing root with two value-bearing
\* children
C10_Witness ==
    /\ iterated
    /\ ~call.hasPrefix
    /\ call.order = "dfs"
    /\ Len(ret.pairs) = 3
    /\ \E a, b \in valueNodes :
          siblingBefore(a, b) /\ nodes[a].parent \in valueNodes

(***************************************************************************)
(* C6: when a key w with a wildcard was set, get(s) returns a non-null     *)
(* value for every string s of the length of w that equals w wherever w    *)
(* has no wildcard, whatever other keys were set and in whatever order.    *)
(* Stated for the strings s that hold no wildcard themselves.              *)
(***************************************************************************)
C6_WildcardKeyMatches ==
    call.op = "get" /\ ~hasWildcard(content)
       /\ (\E p \in hist : hasWildcard(p[1]) /\ matchesPattern(p[1], folded))
    => ret.value # NULL

(***************************************************************************)
(* C7: with keys that may hold the wildcard, a set of key k2 never changes *)
(* what get returns for a key k1 set earlier that differs from k2 after    *)
(* case folding.                                                           *)
(***************************************************************************)
C7_SetLeavesOtherKeys ==
    [][sets'.count = sets.count + 1 =>
          \A p \in hist :
             p[1] # foldKey(caseSensitive, sets'.key) =>
                get(nodes', root', caseSensitive, keyAsPointer(p[1])).value
                   = get(nodes, root, caseSensitive, keyAsPointer(p[1])).value]_vars

(***************************************************************************)
(* C2: with keys without the wildcard and truthy values,                   *)
(* findByLongestPrefix(w, false) returns [k, v] with k the longest key set *)
(* that is a prefix of the text of the window and v its last value, and    *)
(* returns null only when no key set is a prefix of that text.             *)
(***************************************************************************)
C2_LongestStoredPrefix ==
    call.op = "find" /\ ~call.wordBoundaryOnly =>
        IF storedPrefixes(folded) = {}
        THEN ~ret.found
        ELSE LET longest == CHOOSE p \in storedPrefixes(folded) :
                               \A q \in storedPrefixes(folded) :
                                  Len(q[1]) <= Len(p[1])
             IN  ret.found /\ ret.key = longest[1] /\ ret.value = longest[2]

(***************************************************************************)
(* C3: when findByLongestPrefix(w, true) returns [k, v], the position      *)
(* p = pos + length(k) is the end of the window as it was passed, or the   *)
(* character data[p] is not a letter.                                      *)
(***************************************************************************)
C3_BoundaryAfterMatch ==
    call.op = "find" /\ call.wordBoundaryOnly /\ ret.found =>
        LET p == call.kp.pos + Len(ret.key)
        IN  \/ p = call.kp.posMax
            \/ p < Len(call.kp.data) /\ call.kp.data[p + 1] \notin Letters

(***************************************************************************)
(* C4: after get(w), findByLongestPrefix(w, false) or iterate(w) returns,  *)
(* w.pos is what it was before the call, and a second get(w) on the same   *)
(* trie returns what the first returned.                                   *)
(***************************************************************************)
C4_PointerRestored ==
    /\ \/ call.op = "get"
       \/ call.op = "find" /\ ~call.wordBoundaryOnly
       \/ call.op = "iterate" /\ call.hasPrefix
       => ret.pos = call.kp.pos
    /\ call.op = "get" =>
          get(nodes, root, caseSensitive,
              [call.kp EXCEPT !.pos = ret.pos]).value = ret.value

(***************************************************************************)
(* C8: with keys without the wildcard, get(w) for a window w over a buffer *)
(* equals get of the text of the window passed as a string: the value last *)
(* set for that text (folded), null when the text is no key set, whatever  *)
(* the buffer holds outside the window.                                    *)
(***************************************************************************)
C8_WindowEqualsSlice ==
    call.op = "get" =>
        /\ ret.value = get(nodes, root, caseSensitive, keyAsPointer(content)).value
        /\ ret.value = Expected(folded)

\* a key is found in a window that starts and ends inside the buffer, and a
\* letter follows the window
C8_Witness ==
    /\ call.op = "get"
    /\ call.kp.pos > 0
    /\ call.kp.pos < call.kp.posMax
    /\ call.kp.posMax < Len(call.kp.data)
    /\ call.kp.data[call.kp.posMax + 1] \in Letters
    /\ sets.count = 3
    /\ ret.value = 1

(***************************************************************************)
(* The structure of the trie, for the claims on set.                       *)
(***************************************************************************)
\* the nodes whose full key is k
nodesAt(ns, k) == {n \in 1..Len(ns) : fullKeyOf(ns, n) = k}

\* the step is a set call
isSetStep == sets'.count = sets.count + 1

(***************************************************************************)
(* C11: a set(k, v) whose folded key is the full key of a node, with or    *)
(* without a value, changes the value of that node and nothing else: the   *)
(* arena keeps its length, every key segment, parent and children list,    *)
(* and the root; and the same set(k, v) made again leaves the state as the *)
(* first one left it.                                                      *)
(***************************************************************************)
C11_OverwriteInPlace ==
    [][isSetStep =>
          LET k == foldKey(caseSensitive, sets'.key)
          IN  /\ nodesAt(nodes, k) # {} =>
                    /\ root' = root
                    /\ \E n \in nodesAt(nodes, k) :
                          nodes' = [nodes EXCEPT ![n].value = sets'.value]
              /\ set(nodes', root', caseSensitive, sets'.key, sets'.value)
                    = [nodes |-> nodes', root |-> root']]_vars

\* the third set gave a value to the root of a trie of three nodes that two
\* sets had built: the root was a branch point without a value
C11_Witness ==
    /\ sets.count = 3
    /\ Len(nodes) = 3
    /\ nodes[root].value = 3
    /\ Len(nodes[root].children) = 2
    /\ Cardinality(hist) = 3

\* the places <<n, i>> where node c stands in a children list
placesOf(ns, c) ==
    {p \in (1..Len(ns)) \X (1..Len(ns)) :
        p[2] <= Len(ns[p[1]].children) /\ ns[p[1]].children[p[2]] = c}

\* the node without a parent reached from n in at most fuel steps along the
\* parent references, NoNode when there is none
RECURSIVE topOf(_, _, _)
topOf(ns, n, fuel) ==
    IF ns[n].parent = NoNode THEN n
    ELSE IF fuel = 0 THEN NoNode
    ELSE topOf(ns, ns[n].parent, fuel - 1)

(***************************************************************************)
(* C12: after any sequence of set calls the nodes form a tree with         *)
(* consistent back-references: the root has no parent, every node in the   *)
(* children list of n has n as its parent, every node but the root stands  *)
(* exactly once in exactly one children list, the root in none, and every  *)
(* node created is reachable from the root.                                *)
(***************************************************************************)
C12_TreeWithBackReferences ==
    IF root = NoNode THEN nodes = <<>>
    ELSE /\ root \in 1..Len(nodes)
         /\ nodes[root].parent = NoNode
         /\ \A n \in 1..Len(nodes) :
               /\ \A i \in 1..Len(nodes[n].children) :
                     /\ nodes[n].children[i] \in 1..Len(nodes)
                     /\ nodes[nodes[n].children[i]].parent = n
               /\ Cardinality(placesOf(nodes, n)) = IF n = root THEN 0 ELSE 1
               /\ topOf(nodes, n, Len(nodes)) = root

\* a node was split inside its segment when it had children: the branch
\* point p has the two new nodes as its children, and the first of them took
\* over the children that p had
C12_Witness ==
    \E p \in 1..Len(nodes) :
       /\ Len(nodes[p].children) = 2
       /\ nodes[p].children[1] > p
       /\ nodes[p].children[2] = nodes[p].children[1] + 1
       /\ \E i \in 1..Len(nodes[nodes[p].children[1]].children) :
             nodes[nodes[p].children[1]].children[i] < nodes[p].children[1]

\* the children of node n whose segment matches the string k with progress
matchingChildren(n, k) ==
    {i \in 1..Len(nodes[n].children) :
        matchPrefix(caseSensitive, nodes[nodes[n].children[i]].key,
                    keyAsPointer(k)).kind # "none"}

(***************************************************************************)
(* C13: after any sequence of set calls with keys without the wildcard,    *)
(* the empty key included, every node but the root has a key segment that  *)
(* is not empty, the segments of two children of one node start with       *)
(* different characters, and at most one child of a node matches a given   *)
(* non-empty string.                                                       *)
(***************************************************************************)
C13_SiblingsStartDifferently ==
    \A n \in 1..Len(nodes) :
       /\ n # root => nodes[n].key # <<>>
       /\ \A i, j \in 1..Len(nodes[n].children) :
             i # j => nodes[nodes[n].children[i]].key[1]
                        # nodes[nodes[n].children[j]].key[1]
       /\ \A k \in LongKeys \ {<<>>} : Cardinality(matchingChildren(n, k)) <= 1

\* the empty key is stored at the root, and a node below the root has two
\* children
C13_Witness ==
    /\ root # NoNode
    /\ nodes[root].key = <<>>
    /\ nodes[root].value # NULL
    /\ \E n \in 1..Len(nodes) : n # root /\ Len(nodes[n].children) = 2

(***************************************************************************)
(* C14: after any sequence of set calls with non-null values, every node   *)
(* whose value is null has at least two children.  A set makes the value   *)
(* of a node null only when it splits that node and gives it two new       *)
(* children; a new node without a value is a root with an empty key and    *)
(* two children, or the lower part of a split branch point, which takes    *)
(* over its children; and every key that had a value before a set has one  *)
(* after it: the same one when the set was of another key.                 *)
(***************************************************************************)
C14_BranchPointsHaveTwoChildren ==
    [][isSetStep =>
          /\ \A n \in 1..Len(nodes') :
                nodes'[n].value = NULL => Len(nodes'[n].children) >= 2
          /\ \A n \in 1..Len(nodes) :
                nodes[n].value # NULL /\ nodes'[n].value = NULL =>
                   /\ Len(nodes'[n].children) = 2
                   /\ \A i \in 1..2 : nodes'[n].children[i] > Len(nodes)
          /\ \A n \in (Len(nodes) + 1)..Len(nodes') :
                nodes'[n].value = NULL =>
                   \/ /\ n = root'
                      /\ nodes'[n].key = <<>>
                      /\ Len(nodes'[n].children) = 2
                   \/ /\ nodes'[n].parent \in 1..Len(nodes)
                      /\ nodes[nodes'[n].parent].value = NULL
                      /\ nodes'[n].children = nodes[nodes'[n].parent].children
          /\ \A n \in 1..Len(nodes) :
                nodes[n].value # NULL =>
                   \E m \in nodesAt(nodes', fullKeyOf(nodes, n)) :
                      /\ nodes'[m].value # NULL
                      /\ fullKeyOf(nodes, n) # foldKey(caseSensitive, sets'.key)
                            => nodes'[m].value = nodes[n].value]_vars

\* a root with an empty key and no value over a branch point without a
\* value: two nodes without a value, each with two children
C14_Witness ==
    /\ root # NoNode
    /\ nodes[root].key = <<>>
    /\ nodes[root].value = NULL
    /\ \E n \in 1..Len(nodes) :
          /\ n # root
          /\ nodes[n].value = NULL
          /\ Len(nodes[n].children) = 2

(***************************************************************************)
(* C15: when findByLongestPrefix(w, true) returns, for a window w with     *)
(* 0 <= pos <= posMax <= length(data) at the call, w still has             *)
(* 0 <= pos <= posMax <= length(data); pos is what it was, and posMax is   *)
(* not greater than it was.                                                *)
(***************************************************************************)
C15_WindowStaysWellFormed ==
    call.op = "find" /\ call.wordBoundaryOnly =>
        /\ 0 <= ret.pos
        /\ ret.pos <= ret.posMax
        /\ ret.posMax <= Len(call.kp.data)
        /\ ret.pos = call.kp.pos
        /\ ret.posMax <= call.kp.posMax

\* the prefixes of the full keys of the nodes: the places in the trie, at
\* the end of a segment or inside one
triePrefixes(ns) ==
    UNION {{SubSeq(fullKeyOf(ns, n), 1, i) : i \in 0..Len(fullKeyOf(ns, n))} :
              n \in 1..Len(ns)}

\* the longest prefix of the string k that is a place in the trie
commonPrefix(ns, k) ==
    LET len == CHOOSE i \in 0..Len(k) :
                  /\ SubSeq(k, 1, i) \in triePrefixes(ns)
                  /\ \A j \in (i + 1)..Len(k) :
                        SubSeq(k, 1, j) \notin triePrefixes(ns)
    IN  SubSeq(k, 1, len)

\* the number of nodes a set of the folded key k has to create: none at the
\* full key of a node, two when k leaves the trie inside a segment (before
\* the first character of the root's segment included), one otherwise
nodesToAdd(ns, rt, k) ==
    IF rt = NoNode THEN 1
    ELSE IF nodesAt(ns, k) # {} THEN 0
    ELSE IF commonPrefix(ns, k) # k /\ nodesAt(ns, commonPrefix(ns, k)) = {}
    THEN 2
    ELSE 1

\* the node the traversal of set ends at: the root when there is no match
matchedNode(ns, rt, cs, k) ==
    LET result == findClosestMatchingNode(ns, rt, cs, keyAsPointer(k))
    IN  IF result.found THEN result.node ELSE rt

\* the nodes a set of the folded key k may touch: the matched node, its
\* parent and its children
mayTouch(ns, rt, cs, k) ==
    IF rt = NoNode THEN {}
    ELSE LET node == matchedNode(ns, rt, cs, k)
         IN  {node, ns[node].parent}
                \cup {ns[node].children[i] : i \in 1..Len(ns[node].children)}

(***************************************************************************)
(* C16: a set keeps every node there was, in the tree under the root, and  *)
(* creates none when the key is the full key of a node, two when the key   *)
(* leaves the trie inside a segment with characters left over (a root      *)
(* split included), and one in every other case; the nodes other than the  *)
(* matched node, its parent and its children keep their key, value, parent *)
(* and children.                                                           *)
(***************************************************************************)
C16_SetAddsAtMostTwoNodes ==
    [][isSetStep =>
          LET k == foldKey(caseSensitive, sets'.key)
          IN  /\ Len(nodes') = Len(nodes) + nodesToAdd(nodes, root, k)
              /\ \A n \in 1..Len(nodes) :
                    /\ n # root' => Cardinality(placesOf(nodes', n)) = 1
                    /\ topOf(nodes', n, Len(nodes')) = root'
                    /\ n \notin mayTouch(nodes, root, caseSensitive, k)
                          => nodes'[n] = nodes[n]]_vars

\* four sets have built seven nodes: after the first, each one created two
C16_Witness ==
    /\ sets.count = 4
    /\ Len(nodes) = 7

\* the keys set, with their last values, that are a prefix of the text of
\* the window and end at the end of the window or before a character that
\* is not a letter
boundaryPrefixes ==
    {p \in storedPrefixes(folded) :
        \/ call.kp.pos + Len(p[1]) = call.kp.posMax
        \/ ~isNonBoundary(call.kp.data, call.kp.pos + Len(p[1]))}

(***************************************************************************)
(* C17: findByLongestPrefix(w, true) returns after at most length(w) + 1   *)
(* retries, each retry lowers posMax by at least one, and when no key set  *)
(* is a prefix of the window that ends at a boundary the result is null.   *)
(***************************************************************************)
C17_RetriesBoundedThenNull ==
    call.op = "find" /\ call.wordBoundaryOnly =>
        /\ ret.calls >= 1
        /\ ret.calls - 1 <= (call.kp.posMax - call.kp.pos) + 1
        /\ ret.posMax <= call.kp.posMax - (ret.calls - 1)
        /\ boundaryPrefixes = {} => ~ret.found

\* the keys set, with their last values, that start with the string k
storedExtensions(k) == {p \in hist : isPrefixOf(k, p[1])}

(***************************************************************************)
(* C18: with keys without the wildcard, iterate(p) for a prefix p that is  *)
(* not empty yields exactly one pair [k, v] for every key k set that       *)
(* starts with p after case folding, with v its last value, and nothing    *)
(* else: nothing at all when no key set starts with p.                     *)
(***************************************************************************)
C18_IteratePrefixYieldsExtensions ==
    iterated /\ call.hasPrefix /\ content # <<>> =>
        /\ yieldedPairs = storedExtensions(folded)
        /\ Len(ret.pairs) = Cardinality(storedExtensions(folded))

(***************************************************************************)
(* C19: for every value set that is not null, the falsy value 0 included,  *)
(* get(k) returns the value last set for k, iterate() yields exactly the   *)
(* pairs of the keys set and their last values, and                        *)
(* findByLongestPrefix(k, false) of a key k that was set returns k with    *)
(* its last value.                                                         *)
(***************************************************************************)
C19_QueriesAgreeOnPresence ==
    /\ call.op = "get" => ret.value = Expected(folded)
    /\ iterated /\ ~call.hasPrefix => yieldedPairs = hist
    /\ call.op = "find" /\ ~call.wordBoundaryOnly /\ Expected(folded) # NULL =>
          ret.found /\ ret.key = folded /\ ret.value = Expected(folded)

====
